---- MODULE Spec2Model ----
(***************************************************************************)
(* Model of statplot.Chi2Independence (src/statplot.py).                   *)
(*                                                                         *)
(* One analysis object `self` with the attributes the class assigns, the   *)
(* three public methods chi2_ind, test_residuals and plot, the helper      *)
(* _test_single_residual, and reassignment of the public configuration     *)
(* attributes.  The numerical and plotting libraries the class calls are   *)
(* modelled by what they compute:                                          *)
(*   - counts are naturals; a real number that is a signed square root of  *)
(*     a rational (every Pearson / standardized residual is one) is the    *)
(*     record [sgn, num, den] standing for sgn * sqrt(num / den), and      *)
(*     den = 0 with num = 0 is NaN;                                        *)
(*   - a rational (statistic, expected frequency) is the pair <<num, den>>;*)
(*   - the p-value is the uninterpreted term <<"chi2.sf", stat, dof>>;     *)
(*   - category labels are naturals standing for strings, ordered as the   *)
(*     strings are.                                                        *)
(***************************************************************************)
EXTENDS Integers, Sequences, FiniteSets, TLC

VARIABLES self, last, engine_calls, engine_done, explicit

vars == <<self, last, engine_calls, engine_done, explicit>>

(***************************************************************************)
(* Bounds of the model.                                                    *)
(***************************************************************************)
\* largest sum of the counts of a table of the wide universe
MaxTotal == 4
\* largest number of invocations of the chi-squared engine in one behaviour
MaxEngineCalls == 2

(***************************************************************************)
(* Program constants.                                                      *)
(***************************************************************************)
\* alpha = 0.05, in thousandths
AlphaPerMille == 50
\* norm.ppf(1 - alpha/2) ** 2 = 3.8415 = Z2Num / Z2Den (upper_z = 1.959964)
Z2Num == 7683
Z2Den == 2000

(***************************************************************************)
(* Arithmetic helpers.                                                     *)
(***************************************************************************)
RECURSIVE SumTo(_, _)
SumTo(f, n) == IF n = 0 THEN 0 ELSE f[n] + SumTo(f, n - 1)

RECURSIVE ProdTo(_, _)
ProdTo(f, n) == IF n = 0 THEN 1 ELSE f[n] * ProdTo(f, n - 1)

Abs(a) == IF a < 0 THEN -a ELSE a

Sgn(a) == IF a < 0 THEN -1 ELSE IF a > 0 THEN 1 ELSE 0

Min2(a, b) == IF a < b THEN a ELSE b

\* F(v), with v evaluated once (a local variable of the code)
Let(v, F(_)) == CHOOSE r \in {F(x) : x \in {v}} : TRUE

NaN == [sgn |-> 0, num |-> 0, den |-> 0]

IsNaN(a) == a.den = 0 /\ a.num = 0

\* Python's float comparison a < b on signed square roots of rationals;
\* every comparison with NaN is False
Less(a, b) ==
    IF IsNaN(a) \/ IsNaN(b) THEN FALSE
    ELSE IF a.sgn # b.sgn THEN a.sgn < b.sgn
    ELSE IF a.sgn = 1 THEN a.num * b.den < b.num * a.den
    ELSE IF a.sgn = -1 THEN a.num * b.den > b.num * a.den
    ELSE FALSE

(***************************************************************************)
(* Contingency tables: a pandas DataFrame in crosstab layout.              *)
(*   index   : the row labels in row order                                 *)
(*   columns : the column labels in column order                           *)
(*   values  : the matrix of counts                                        *)
(***************************************************************************)
NRows(t) == Len(t.values)

NCols(t) == Len(t.values[1])

Shape(m) == <<Len(m), Len(m[1])>>

RowSum(v, i) == SumTo(v[i], Len(v[i]))

ColSum(v, j) == SumTo([i \in 1..Len(v) |-> v[i][j]], Len(v))

Total(v) == SumTo([i \in 1..Len(v) |-> RowSum(v, i)], Len(v))

Matrix(R, C, F(_, _)) == [i \in 1..R |-> [j \in 1..C |-> F(i, j)]]

HasZeroCell(v) == \E i \in 1..Len(v) : \E j \in 1..Len(v[1]) : v[i][j] = 0

(***************************************************************************)
(* scipy.stats.chi2_contingency(observed, correction, lambda_).            *)
(* lambda_ is None or "pearson": Pearson's statistic.                      *)
(***************************************************************************)
EngineError == "ValueError: expected frequencies has a zero element"

\* the engine refuses a table whose expected frequencies hold a zero,
\* that is a table with an empty row or an empty column
Chi2ContingencyRaises(observed) ==
    \E i \in 1..Len(observed) : \E j \in 1..Len(observed[1]) :
        RowSum(observed, i) * ColSum(observed, j) = 0

Dof(observed) == (Len(observed) - 1) * (Len(observed[1]) - 1)

\* expected[i][j] = r_i * c_j / n
ExpectedFreq(observed) ==
    Matrix(Len(observed), Len(observed[1]),
           LAMBDA i, j : <<RowSum(observed, i) * ColSum(observed, j), Total(observed)>>)

\* 2n * (observed - expected) for one cell, after Yates' correction when it
\* applies: the observed value is moved by 0.5 towards the expected one
CellDeviation(observed, i, j, yates) ==
    LET n == Total(observed)
        d == n * observed[i][j] - RowSum(observed, i) * ColSum(observed, j)
    IN  IF yates THEN Sgn(d) * (2 * Abs(d) - n) ELSE 2 * d

\* sum over the cells of (observed - expected)^2 / expected, as <<num, den>>
Statistic(observed, correction) ==
    LET R == Len(observed)
        C == Len(observed[1])
        n == Total(observed)
        yates == correction /\ Dof(observed) = 1
        D == ProdTo([i \in 1..R |-> RowSum(observed, i)], R)
             * ProdTo([j \in 1..C |-> ColSum(observed, j)], C)
        term(i, j) == LET a == CellDeviation(observed, i, j, yates)
                      IN  a * a * (D \div (RowSum(observed, i) * ColSum(observed, j)))
        rowterms(i) == SumTo([j \in 1..C |-> term(i, j)], C)
    IN  IF Dof(observed) = 0 THEN <<0, 1>>
        ELSE <<SumTo([i \in 1..R |-> rowterms(i)], R), 4 * n * D>>

\* (statistic, p-value, degrees of freedom, expected frequencies)
Chi2Contingency(observed, correction, lambda_) ==
    LET stat == Statistic(observed, correction)
    IN  <<stat, <<"chi2.sf", stat, Dof(observed)>>, Dof(observed), ExpectedFreq(observed)>>

(***************************************************************************)
(* statsmodels.stats.Table(crosstab, shift_zeros): the table as floats,    *)
(* 0.5 added to every cell when shift_zeros is set and a cell is zero.     *)
(* The cells are kept in units of 1/scale.                                 *)
(***************************************************************************)
Table(crosstab, shift_zeros) ==
    LET v == crosstab.values
        shifted == shift_zeros /\ HasZeroCell(v)
    IN  [scale |-> IF shifted THEN 2 ELSE 1,
         table |-> Matrix(Len(v), Len(v[1]),
                          LAMBDA i, j : IF shifted THEN 2 * v[i][j] + 1 ELSE v[i][j])]

\* Table.resid_pearson: (table - fit) / sqrt(fit), fit = r_i * c_j / n
ResidPearson(tbl) ==
    LET v == tbl.table
        n == Total(v)
        dev(i, j) == n * v[i][j] - RowSum(v, i) * ColSum(v, j)
    IN  Matrix(Len(v), Len(v[1]),
               LAMBDA i, j : [sgn |-> Sgn(dev(i, j)),
                              num |-> dev(i, j) * dev(i, j),
                              den |-> tbl.scale * n * RowSum(v, i) * ColSum(v, j)])

\* Table.standardized_resids:
\* (table - fit) / sqrt(fit * (1 - r_i / n) * (1 - c_j / n))
StandardizedResids(tbl) ==
    LET v == tbl.table
        n == Total(v)
        dev(i, j) == n * v[i][j] - RowSum(v, i) * ColSum(v, j)
    IN  Matrix(Len(v), Len(v[1]),
               LAMBDA i, j : [sgn |-> Sgn(dev(i, j)),
                              num |-> n * dev(i, j) * dev(i, j),
                              den |-> tbl.scale * RowSum(v, i) * ColSum(v, j)
                                      * (n - RowSum(v, i)) * (n - ColSum(v, j))])

(***************************************************************************)
(* scipy.stats.norm.ppf at the two probabilities test_residuals asks for,  *)
(* in thousandths.                                                         *)
(***************************************************************************)
NormPpf(q) ==
    IF q = 1000 - AlphaPerMille \div 2 THEN [sgn |-> 1, num |-> Z2Num, den |-> Z2Den]
    ELSE IF q = AlphaPerMille \div 2 THEN [sgn |-> -1, num |-> Z2Num, den |-> Z2Den]
    ELSE NaN

(***************************************************************************)
(* pandas and numpy helpers.                                               *)
(***************************************************************************)
\* a flatten in column-major (Fortran) order, which the code does not use
FlattenColumnMajor(m) ==
    LET R == Len(m)
    IN  [k \in 1..(R * Len(m[1])) |-> m[((k - 1) % R) + 1][(k - 1) \div R + 1]]

\* ndarray.flatten(): row-major
Flatten(m) ==
    LET C == Len(m[1])
    IN  [k \in 1..(Len(m) * C) |-> m[(k - 1) \div C + 1][((k - 1) % C) + 1]]

NoFrame == [columns |-> <<>>, rows |-> <<>>]

\* crosstab.stack().reset_index().rename(columns={0:'Frequency'})
Stack(t) ==
    LET C == NCols(t)
    IN  [columns |-> <<"row_var", "col_var", "Frequency">>,
         rows |-> [k \in 1..(NRows(t) * C) |->
                      [row_var |-> t.index[(k - 1) \div C + 1],
                       col_var |-> t.columns[((k - 1) % C) + 1],
                       Frequency |-> t.values[(k - 1) \div C + 1][((k - 1) % C) + 1],
                       sig |-> FALSE]]]

HasColumn(frame, c) == \E k \in 1..Len(frame.columns) : frame.columns[k] = c

\* Series.unique(): the values in order of first appearance
Unique(s) ==
    LET keep == {k \in 1..Len(s) : \A m \in 1..(k - 1) : s[m] # s[k]}
    IN  [p \in 1..Cardinality(keep) |->
            s[CHOOSE k \in keep : Cardinality({m \in keep : m <= k}) = p]]

Column(frame, c) == [k \in 1..Len(frame.rows) |-> frame.rows[k][c]]

\* DataFrame.sort_values(by): ascending by the label, rows of one label in
\* their order in the frame
SortRows(rows, by) ==
    LET before(m, k) == rows[m][by] < rows[k][by] \/ (rows[m][by] = rows[k][by] /\ m <= k)
        rank(k) == Cardinality({m \in 1..Len(rows) : before(m, k)})
    IN  [p \in 1..Len(rows) |-> rows[CHOOSE k \in 1..Len(rows) : rank(k) = p]]

SortValues(frame, by) == [frame EXCEPT !.rows = SortRows(frame.rows, by)]

(***************************************************************************)
(* Chi2Independence: the object and its methods.  `has` is the set of      *)
(* attributes assigned after construction (what hasattr answers).          *)
(* A call yields [obj, raised, returned, trace, chart, persisted]: the     *)
(* object after the call, the exception that left it ("none" when it       *)
(* returned), the value returned, the library and method calls made in     *)
(* order, the chart drawn and the file written.                            *)
(***************************************************************************)
None == "None"

NoChart == [drawn |-> FALSE, patches |-> <<>>, marks |-> <<>>, title |-> None]

\* __init__
NewObject(crosstab, correction, lambda_, shift_zeros) ==
    [crosstab |-> crosstab, correction |-> correction, lambda_ |-> lambda_,
     shift_zeros |-> shift_zeros, has |-> {},
     results_chi2_ |-> <<>>, _table |-> <<>>, _residuals |-> <<>>,
     _stdres |-> <<>>, results |-> <<>>, df_freq |-> NoFrame]

Outcome(obj, raised, returned, trace) ==
    [obj |-> obj, raised |-> raised, returned |-> returned, trace |-> trace,
     chart |-> NoChart, persisted |-> None]

HasAttr(obj, name) == name \in obj.has

\* _get_residuals
GetResiduals(obj) ==
    Let(Table(obj.crosstab, obj.shift_zeros), LAMBDA tbl :
        [obj EXCEPT !._table = tbl,
                    !._residuals = ResidPearson(tbl),
                    !._stdres = StandardizedResids(tbl),
                    !.has = @ \cup {"_table", "_residuals", "_stdres"}])

\* a chi2_ind that hands the shifted table to the engine, which the code
\* does not do
EngineInputShifted(obj) == Table(obj.crosstab, obj.shift_zeros).table

\* the table chi2_ind hands to chi2_contingency
EngineInput(obj) == obj.crosstab.values

\* a chi2_ind that marks results as cached although the engine raised,
\* which the code does not do
Chi2IndCachingFailure(obj) ==
    IF Chi2ContingencyRaises(EngineInput(obj))
    THEN Outcome([obj EXCEPT !.has = @ \cup {"results"}], EngineError, None, <<"chi2_ind", "chi2_contingency">>)
    ELSE Let(Chi2Contingency(EngineInput(obj), obj.correction, obj.lambda_), LAMBDA chi2 :
         Let(GetResiduals([obj EXCEPT !.results_chi2_ = chi2,
                                      !.has = @ \cup {"results_chi2_"}]), LAMBDA o :
         Let([o EXCEPT !.results = o.results_chi2_ \o <<o._residuals, o._stdres>>,
                       !.has = @ \cup {"results"}], LAMBDA done :
             Outcome(done, "none", done.results,
                     <<"chi2_ind", "chi2_contingency", "Table">>))))

\* chi2_ind
Chi2Ind(obj) ==
    IF Chi2ContingencyRaises(EngineInput(obj))
    THEN Outcome(obj, EngineError, None, <<"chi2_ind", "chi2_contingency">>)
    ELSE Let(Chi2Contingency(EngineInput(obj), obj.correction, obj.lambda_), LAMBDA chi2 :
         Let(GetResiduals([obj EXCEPT !.results_chi2_ = chi2,
                                      !.has = @ \cup {"results_chi2_"}]), LAMBDA o :
         Let([o EXCEPT !.results = o.results_chi2_ \o <<o._residuals, o._stdres>>,
                       !.has = @ \cup {"results"}], LAMBDA done :
             Outcome(done, "none", done.results,
                     <<"chi2_ind", "chi2_contingency", "Table">>))))

\* a threshold test with <= and >=, which the code does not use
TestSingleResidualNonStrict(residual, upper_z, lower_z) ==
    ~Less(lower_z, residual) \/ ~Less(residual, upper_z)

\* _test_single_residual
TestSingleResidual(residual, upper_z, lower_z) ==
    IF Less(residual, lower_z) \/ Less(upper_z, residual) THEN TRUE ELSE FALSE

UpperZ == NormPpf(1000 - AlphaPerMille \div 2)

LowerZ == NormPpf(AlphaPerMille \div 2)

\* a guard that reruns chi2_ind whatever is cached, which the code does
\* not do
AlwaysTrue(obj) == TRUE

\* test_residuals: `if not hasattr(self,'results')`
NeedsChi2Ind(obj) == ~HasAttr(obj, "results")

\* an assignment that appends to the old frame, which the code does not do
AppendDfFreq(obj, frame) ==
    [obj EXCEPT !.df_freq = [columns |-> frame.columns, rows |-> @.rows \o frame.rows],
                !.has = @ \cup {"df_freq"}]

\* test_residuals: `self.df_freq = ...`
AssignDfFreq(obj, frame) ==
    [obj EXCEPT !.df_freq = frame, !.has = @ \cup {"df_freq"}]

\* test_residuals: `self.df_freq['sig'] = stdres_sig`, lengths equal
AssignSig(obj, stdres_sig) ==
    LET frame == obj.df_freq
        columns == IF HasColumn(frame, "sig") THEN frame.columns
                   ELSE Append(frame.columns, "sig")
        rows == [k \in 1..Len(frame.rows) |-> [frame.rows[k] EXCEPT !.sig = stdres_sig[k]]]
    IN  [obj EXCEPT !.df_freq = [columns |-> columns, rows |-> rows]]

LengthError == "ValueError: length of values does not match length of index"

\* test_residuals, after the chi2_ind it may begin with
TestResidualsBody(obj, trace) ==
    Let(Flatten(obj._stdres), LAMBDA stdres_array :
    Let([k \in 1..Len(stdres_array) |->
            TestSingleResidual(stdres_array[k], UpperZ, LowerZ)], LAMBDA stdres_sig :
    Let(AssignDfFreq(obj, Stack(obj.crosstab)), LAMBDA o :
        IF Len(stdres_sig) # Len(o.df_freq.rows)
        THEN Outcome(o, LengthError, None, trace)
        ELSE Let(AssignSig(o, stdres_sig), LAMBDA done :
                 Outcome(done, "none", done.df_freq, trace)))))

\* test_residuals
TestResiduals(obj) ==
    Let(IF NeedsChi2Ind(obj) THEN Chi2Ind(obj) ELSE Outcome(obj, "none", None, <<>>),
        LAMBDA pre :
            IF pre.raised # "none"
            THEN Outcome(pre.obj, pre.raised, None, <<"test_residuals">> \o pre.trace)
            ELSE TestResidualsBody(pre.obj, <<"test_residuals">> \o pre.trace))

\* seaborn.barplot(data, x, y='Frequency', hue): one bar per (hue level,
\* x level), hue level by hue level, the levels of each variable in their
\* order of first appearance in the data
Barplot(frame, x, hue) ==
    Let(Unique(Column(frame, x)), LAMBDA xs :
    Let(Unique(Column(frame, hue)), LAMBDA hs :
        [p \in 1..(Len(hs) * Len(xs)) |->
            LET h == hs[(p - 1) \div Len(xs) + 1]
                xl == xs[((p - 1) % Len(xs)) + 1]
                r == frame.rows[CHOOSE k \in 1..Len(frame.rows) :
                                    frame.rows[k][x] = xl /\ frame.rows[k][hue] = h]
            IN  [x |-> xl, hue |-> h, height |-> r.Frequency]]))

\* a save attempted without a destination, which the code does not do
AlwaysSave(dst_dir) == TRUE

\* plot: `if dst_dir is not None`
ShouldSave(dst_dir) == dst_dir # None

NoSigError == "KeyError: 'sig'"

SaveError == "OSError: cannot write the file"

\* plot, after the test_residuals it may begin with: the bars, the title,
\* the markers and the save step; `writable` tells whether plt.savefig can
\* write dst_dir
PlotBody(obj, x, hue, title, dst_dir, writable, trace) ==
    Let([drawn |-> TRUE, patches |-> Barplot(obj.df_freq, x, hue),
         marks |-> <<>>, title |-> title], LAMBDA bare :
        IF ~HasColumn(obj.df_freq, "sig")
        THEN [Outcome(obj, NoSigError, None, trace) EXCEPT !.chart = bare]
        ELSE Let(Column(SortValues(obj.df_freq, hue), "sig"), LAMBDA stdres_sig_sorted :
             Let([bare EXCEPT !.marks =
                     [p \in 1..Min2(Len(bare.patches), Len(stdres_sig_sorted)) |->
                         stdres_sig_sorted[p]]], LAMBDA chart :
                 IF ~ShouldSave(dst_dir)
                 THEN [Outcome(obj, "none", None, trace) EXCEPT !.chart = chart]
                 ELSE IF writable
                 THEN [Outcome(obj, "none", None, Append(trace, "savefig"))
                           EXCEPT !.chart = chart, !.persisted = dst_dir]
                 ELSE [Outcome(obj, SaveError, None, Append(trace, "savefig"))
                           EXCEPT !.chart = chart])))

\* plot
Plot(obj, x, hue, title, dst_dir, writable) ==
    Let(IF ~HasAttr(obj, "df_freq") THEN TestResiduals(obj)
        ELSE Outcome(obj, "none", None, <<>>),
        LAMBDA pre :
            IF pre.raised # "none"
            THEN Outcome(pre.obj, pre.raised, None, <<"plot">> \o pre.trace)
            ELSE PlotBody(pre.obj, x, hue, title, dst_dir, writable,
                          Append(<<"plot">> \o pre.trace, "barplot")))

(***************************************************************************)
(* Inputs.                                                                 *)
(***************************************************************************)
Asc(n) == [k \in 1..n |-> k]

Desc(n) == [k \in 1..n |-> n + 1 - k]

\* label orders: sorted, as pandas.crosstab builds them, or reversed
LabelOrders(n) == {Asc(n), Desc(n)}

Shapes == {<<1, 2>>, <<2, 1>>, <<2, 2>>, <<2, 3>>, <<3, 2>>}

\* dense tables of non-negative counts, at least one observation
TablesOf(shape, total) ==
    {[index |-> idx, columns |-> cols, values |-> v] :
        idx \in LabelOrders(shape[1]), cols \in LabelOrders(shape[2]),
        v \in {m \in [1..shape[1] -> [1..shape[2] -> 0..total]] :
                   Total(m) \in 1..total}}

WideTables == UNION {TablesOf(shape, MaxTotal) : shape \in Shapes}

Frame(idx, cols, v) == [index |-> idx, columns |-> cols, values |-> v]

\* the tables of the call-sequence specification: mixed flags with zero
\* cells, its transpose, and a table with an empty column
SeqTables ==
    {Frame(<<1, 2>>, <<1, 2, 3>>, <<<<2, 0, 0>>, <<0, 2, 1>>>>),
     Frame(<<1, 2, 3>>, <<1, 2>>, <<<<2, 0>>, <<0, 2>>, <<0, 1>>>>),
     Frame(<<1>>, <<1, 2>>, <<<<1, 0>>>>)}

Lambdas == {None}

Residuals ==
    {NaN, UpperZ, LowerZ,
     [sgn |-> 0, num |-> 0, den |-> 1],
     [sgn |-> 1, num |-> 4, den |-> 1], [sgn |-> -1, num |-> 4, den |-> 1]}

PlotAxes == {<<"row_var", "col_var">>, <<"col_var", "row_var">>}

\* dst_dir and whether plt.savefig can write it
Destinations == {<<None, TRUE>>, <<"plot.png", TRUE>>, <<"plot.png", FALSE>>}

\* the calls of plot: either variable on the x-axis; no destination, a
\* writable one or an unwritable one; a title is given with a destination
PlotInputs ==
    {[x |-> xh[1], hue |-> xh[2], dst_dir |-> d[1], writable |-> d[2],
      title |-> IF d[1] = None THEN None ELSE "title"] :
        xh \in PlotAxes, d \in Destinations}

(***************************************************************************)
(* The state machine.  `last` records the latest operation on the object   *)
(* and the one before it.                                                  *)
(***************************************************************************)
Occurrences(trace, name) == Len(SelectSeq(trace, LAMBDA c : c = name))

\* what the call left in place: the attributes set before it, and whether
\* it left the cached results and the cached frame as they were; `again`
\* tells that the operation before it was the same one and returned
Record(op, args, out) ==
    [op |-> op, args |-> args, raised |-> out.raised, returned |-> out.returned,
     trace |-> out.trace, chart |-> out.chart, persisted |-> out.persisted,
     before_has |-> self.has,
     kept_results |-> (out.obj.results = self.results),
     kept_df_freq |-> (out.obj.df_freq = self.df_freq),
     again |-> (last.op = op /\ last.raised = "none")]

\* chi2_contingency reads `correction` only when the table has one degree
\* of freedom; correction=True is the default
Corrections(t) == IF Dof(t.values) = 1 THEN BOOLEAN ELSE {TRUE}

InitFrom(tables, lambdas) ==
    /\ self \in UNION {{NewObject(t, c, l, z) :
                             c \in Corrections(t), l \in lambdas, z \in BOOLEAN} :
                         t \in tables}
    /\ last = [op |-> "__init__", args |-> <<>>, raised |-> "none", returned |-> None,
               trace |-> <<>>, chart |-> NoChart, persisted |-> None,
               before_has |-> {}, kept_results |-> TRUE, kept_df_freq |-> TRUE,
               again |-> FALSE]
    /\ engine_calls = 0
    /\ engine_done = 0
    /\ explicit = FALSE

Init == InitFrom(SeqTables, Lambdas)

InitWide == InitFrom(WideTables, Lambdas)

\* a call with outcome `out` has happened
Called(op, args, out) ==
    /\ engine_calls + Occurrences(out.trace, "chi2_contingency") <= MaxEngineCalls
    /\ self' = out.obj
    /\ last' = Record(op, args, out)
    /\ engine_calls' = engine_calls + Occurrences(out.trace, "chi2_contingency")
    /\ engine_done' = engine_done + Occurrences(out.trace, "Table")
    /\ explicit' = (explicit \/ op = "chi2_ind")

CallChi2Ind ==
    \E out \in {Chi2Ind(self)} : Called("chi2_ind", <<>>, out)

CallTestResiduals ==
    \E out \in {TestResiduals(self)} : Called("test_residuals", <<>>, out)

CallPlot ==
    \E in \in PlotInputs :
        \E out \in {Plot(self, in.x, in.hue, in.title, in.dst_dir, in.writable)} :
            Called("plot", <<in.x, in.hue, in.title, in.dst_dir>>, out)

CallTestSingleResidual ==
    \E residual \in Residuals :
        Called("_test_single_residual", <<residual, UpperZ, LowerZ>>,
               Outcome(self, "none", TestSingleResidual(residual, UpperZ, LowerZ), <<>>))

\* obj.shift_zeros = b
SetShiftZeros ==
    \E b \in BOOLEAN :
        /\ b # self.shift_zeros
        /\ Called("setattr", <<"shift_zeros", b>>,
                  Outcome([self EXCEPT !.shift_zeros = b], "none", None, <<>>))

\* obj.crosstab = t
SetCrosstab ==
    \E t \in SeqTables :
        /\ t # self.crosstab
        /\ Called("setattr", <<"crosstab", t>>,
                  Outcome([self EXCEPT !.crosstab = t], "none", None, <<>>))

Next ==
    \/ CallChi2Ind
    \/ CallTestResiduals
    \/ CallPlot
    \/ CallTestSingleResidual
    \/ SetShiftZeros
    \/ SetCrosstab

Spec == Init /\ [][Next]_vars

\* the first call on a freshly constructed object, for every table of the
\* wide universe
Fresh == last.op = "__init__"

FirstChi2Ind == Fresh /\ CallChi2Ind

FirstTestResiduals == Fresh /\ CallTestResiduals

FirstPlot == Fresh /\ CallPlot

FirstTestSingleResidual == Fresh /\ CallTestSingleResidual

NextWide ==
    \/ FirstChi2Ind
    \/ FirstTestResiduals
    \/ FirstPlot
    \/ FirstTestSingleResidual

SpecWide == InitWide /\ [][NextWide]_vars

(***************************************************************************)
(* Properties.                                                             *)
(***************************************************************************)
\* r lies strictly outside [lower_z, upper_z]: r is a number, r # 0 and
\* r^2 > upper_z^2
StrictlyOutside(r) ==
    /\ r.sgn # 0
    /\ r.num * Z2Den > Z2Num * r.den

Frequencies == self.df_freq.rows

Returned(op) == last.op = op /\ last.raised = "none"

\* the records of df_freq for the cell in row i and column j of crosstab
RecordsOf(i, j) ==
    {k \in 1..Len(Frequencies) :
        /\ Frequencies[k].row_var = self.crosstab.index[i]
        /\ Frequencies[k].col_var = self.crosstab.columns[j]}

Cells == (1..NRows(self.crosstab)) \X (1..NCols(self.crosstab))

\* C1: every cell's flag is true iff its standardized residual is strictly
\* below lower_z or strictly above upper_z, and a residual equal to lower_z
\* or to upper_z is not flagged.
C1_StrictThreshold ==
    /\ Returned("test_residuals") =>
           \A c \in Cells : \A k \in RecordsOf(c[1], c[2]) :
               Frequencies[k].sig = StrictlyOutside(self._stdres[c[1]][c[2]])
    /\ last.op = "_test_single_residual" =>
           /\ last.returned = StrictlyOutside(last.args[1])
           /\ last.args[1] \in {UpperZ, LowerZ} => last.returned = FALSE

\* C1 witness: test_residuals has flagged one cell and not another
C1_Witness ==
    /\ Returned("test_residuals")
    /\ \E k \in 1..Len(Frequencies) : Frequencies[k].sig
    /\ \E k \in 1..Len(Frequencies) : ~Frequencies[k].sig

\* C2: test_residuals returns R*C records in row-major order, one per
\* (row category, column category) pair, the record of a cell carrying that
\* cell's observed frequency and the flag of that cell's residual.
C2_RowMajorRecords ==
    Returned("test_residuals") =>
        /\ last.returned = self.df_freq
        /\ Len(Frequencies) = NRows(self.crosstab) * NCols(self.crosstab)
        /\ \A c \in Cells :
               /\ RecordsOf(c[1], c[2]) = {(c[1] - 1) * NCols(self.crosstab) + c[2]}
               /\ Frequencies[(c[1] - 1) * NCols(self.crosstab) + c[2]] =
                      [row_var |-> self.crosstab.index[c[1]],
                       col_var |-> self.crosstab.columns[c[2]],
                       Frequency |-> self.crosstab.values[c[1]][c[2]],
                       sig |-> StrictlyOutside(self._stdres[c[1]][c[2]])]

\* C2 witness: the records of a 2 x 3 table whose flags differ within a row
C2_Witness ==
    /\ Returned("test_residuals")
    /\ Shape(self.crosstab.values) = <<2, 3>>
    /\ Frequencies[1].sig /\ ~Frequencies[2].sig

\* C3 (as claimed): test_residuals fails, and produces no records, when the
\* residual matrix has not the shape of the contingency table.
C3_ShapeMismatchRejected ==
    (/\ last.op = "test_residuals"
     /\ "results" \in last.before_has
     /\ Shape(self._stdres) # Shape(self.crosstab.values))
    => (last.raised # "none" /\ last.returned = None /\ last.kept_df_freq)

\* C4 (as claimed): in a sequence of test_residuals and plot calls the
\* chi-squared engine is invoked exactly once.
C4_EngineInvokedOnce ==
    (~explicit /\ last.op \in {"test_residuals", "plot"}) => engine_calls = 1

InTrace(name) == Occurrences(last.trace, name) > 0

\* C4 (amended): test_residuals runs chi2_ind iff no results are cached and
\* plot runs test_residuals iff no df_freq is cached; in a sequence of
\* test_residuals and plot calls the engine is invoked by every call until
\* it first completes and never after, so it completes at most once; a
\* chart is drawn only with df_freq set, and df_freq is set only with
\* results set.
C4_LazyChaining ==
    /\ last.op = "test_residuals" =>
           (InTrace("chi2_ind") <=> "results" \notin last.before_has)
    /\ last.op = "plot" =>
           /\ InTrace("test_residuals") <=> "df_freq" \notin last.before_has
           /\ InTrace("chi2_ind") <=>
                  ("df_freq" \notin last.before_has /\ "results" \notin last.before_has)
    /\ ~explicit => (engine_done <= 1 /\ (engine_done = 1 <=> "results" \in self.has))
    /\ (~explicit /\ engine_done = 1 /\ last.op \in {"test_residuals", "plot"})
           => (InTrace("chi2_contingency") => InTrace("Table"))
    /\ last.chart.drawn => "df_freq" \in self.has
    /\ "df_freq" \in self.has => "results" \in self.has

\* C4 witness: a plot that found both caches filled by an earlier call
C4_Witness ==
    /\ ~explicit
    /\ engine_done = 1
    /\ Returned("plot")
    /\ {"results", "df_freq"} \subseteq last.before_has
    /\ ~InTrace("test_residuals")

Label(r, variable) == IF variable = "row_var" THEN r.row_var ELSE r.col_var

\* the flag of the record the bar p stands for
FlagOfBar(p) ==
    LET bar == last.chart.patches[p]
        k == CHOOSE k \in 1..Len(Frequencies) :
                 /\ Label(Frequencies[k], last.args[1]) = bar.x
                 /\ Label(Frequencies[k], last.args[2]) = bar.hue
    IN  Frequencies[k].sig

\* C5 (as claimed): plot marks a bar iff the record of that bar's (x, hue)
\* cell is flagged, whatever the order of the labels and whichever variable
\* is the hue.
C5_MarkersOnSignificantBars ==
    (last.op = "plot" /\ last.chart.drawn /\ last.raised \in {"none", SaveError}) =>
        /\ Len(last.chart.marks) = Len(last.chart.patches)
        /\ \A p \in 1..Len(last.chart.patches) : last.chart.marks[p] = FlagOfBar(p)

\* C6: a second test_residuals right after a first returns the same records
\* and leaves the cached results as they were.
C6_Idempotent ==
    /\ Returned("test_residuals") => last.returned = self.df_freq
    /\ (last.op = "test_residuals" /\ last.again) =>
           /\ last.raised = "none"
           /\ last.kept_df_freq
           /\ last.kept_results

\* C6 witness: two test_residuals calls in a row, with a flagged cell
C6_Witness ==
    /\ last.op = "test_residuals"
    /\ last.again
    /\ \E k \in 1..Len(Frequencies) : Frequencies[k].sig

\* the first four components of the result of chi2_ind on self with
\* shift_zeros set to z
Chi2Part(z) == SubSeq(Chi2Ind([self EXCEPT !.shift_zeros = z]).obj.results, 1, 4)

ResidualPart(z) == SubSeq(Chi2Ind([self EXCEPT !.shift_zeros = z]).obj.results, 5, 6)

\* C7: the statistic, p-value, degrees of freedom and expected frequencies
\* chi2_ind returns are those of the unshifted table, which the engine
\* accepted, and are the same with shift_zeros true and false.
C7_ShiftLeavesStatistic ==
    Returned("chi2_ind") =>
        /\ ~Chi2ContingencyRaises(self.crosstab.values)
        /\ SubSeq(self.results, 1, 4) = self.results_chi2_
        /\ self.results_chi2_ =
               Chi2Contingency(self.crosstab.values, self.correction, self.lambda_)
        /\ SubSeq(self.results, 1, 4) = Chi2Part(~self.shift_zeros)

\* C7 witness: a result whose residuals do depend on shift_zeros
C7_Witness ==
    /\ Returned("chi2_ind")
    /\ self.shift_zeros
    /\ SubSeq(self.results, 5, 6) # ResidualPart(FALSE)

\* C8: a failing save in plot surfaces and leaves df_freq and the results as
\* computed; the save is attempted only with a destination, and without one
\* nothing is written.
C8_SaveFailureKeepsData ==
    last.op = "plot" =>
        /\ last.raised = SaveError =>
               /\ {"results", "df_freq"} \subseteq self.has
               /\ HasColumn(self.df_freq, "sig")
               /\ "df_freq" \in last.before_has => last.kept_df_freq
               /\ "results" \in last.before_has => last.kept_results
               /\ last.persisted = None
        /\ InTrace("savefig") <=> (last.chart.drawn /\ Len(last.chart.marks) > 0
                                     /\ last.args[4] # None)
        /\ last.args[4] = None => last.persisted = None
        /\ last.persisted # None => (last.persisted = last.args[4] /\ last.raised = "none")

\* C8 witness: a plot of cached records whose save failed
C8_Witness ==
    /\ last.op = "plot"
    /\ last.raised = SaveError
    /\ "df_freq" \in last.before_has

\* C9: an engine error in the chi2_ind that test_residuals or plot runs
\* reaches the caller as it is, leaves neither results nor df_freq set, and
\* the next call runs the engine again.
C9_EngineErrorPropagates ==
    last.op \in {"test_residuals", "plot"} =>
        /\ (InTrace("chi2_contingency") /\ ~InTrace("Table")) =>
               /\ last.raised = EngineError
               /\ last.returned = None
               /\ ~last.chart.drawn
               /\ "results" \notin self.has
               /\ "df_freq" \notin self.has
        /\ last.raised = EngineError => InTrace("chi2_contingency")
        /\ ("results" \notin last.before_has /\ "df_freq" \notin last.before_has)
               => InTrace("chi2_contingency")

\* C9 witness: the engine has failed twice, the second time inside plot
C9_Witness ==
    /\ last.op = "plot"
    /\ last.raised = EngineError
    /\ engine_calls = 2
    /\ ~explicit

\* C10 (as claimed): whenever df_freq is set, results is set and the flags
\* of df_freq are those of the threshold test on the cached standardized
\* residuals.
C10_CacheCoherent ==
    "df_freq" \in self.has =>
        /\ "results" \in self.has
        /\ HasColumn(self.df_freq, "sig")
        /\ Len(Frequencies) = Len(Flatten(self._stdres))
        /\ \A k \in 1..Len(Frequencies) :
               Frequencies[k].sig = StrictlyOutside(Flatten(self._stdres)[k])

====
